---- MODULE Spec2Model ----
(***************************************************************************)
(* A model of utils.registration: the AffineMatrix class (affine.py) and   *)
(* the transform readers and writers it dispatches to (io.py).             *)
(*                                                                         *)
(* Arithmetic.  NumPy computes on binary doubles; the model computes on    *)
(* exact rationals <<n, d>> in lowest terms with d > 0, so that equality   *)
(* of two matrices is equality of their values.  np.linalg.inv is the      *)
(* exact inverse (adjugate over determinant) and raises LinAlgError when   *)
(* the array is not square or the determinant is zero.  The only place     *)
(* where the program itself discards digits, the '%.8f' format of          *)
(* np.savetxt, is modelled digit by digit.                                 *)
(***************************************************************************)
EXTENDS Integers, Sequences, FiniteSets, TLC

----------------------------------------------------------------------------------------------------------------------------------------
(* Evaluation order: With(x, F) is F(x) with x evaluated once, before F    *)

With(x, F(_)) == CHOOSE y \in {F(v) : v \in {x}} : TRUE

----------------------------------------------------------------------------
(* Exact rationals                                                          *)

Abs(x) == IF x < 0 THEN -x ELSE x

RECURSIVE GCD(_, _)
GCD(a, b) == IF b = 0 THEN a ELSE With(a % b, LAMBDA r : GCD(b, r))

\* n/d in lowest terms with a positive denominator (d # 0)
Rat(n, d) ==
    With(GCD(Abs(n), Abs(d)),
         LAMBDA g : IF d < 0 THEN << -(n \div g), -(d \div g) >>
                    ELSE << n \div g, d \div g >>)

Zero == << 0, 1 >>
One == << 1, 1 >>
Int2Rat(k) == << k, 1 >>

RNeg(x) == << -x[1], x[2] >>

\* x + y and x * y for rationals given as values
AddValues(x, y) ==
    IF x[1] = 0 THEN y
    ELSE IF y[1] = 0 THEN x
    ELSE IF x[2] = 1 /\ y[2] = 1 THEN << x[1] + y[1], 1 >>
    ELSE With(GCD(x[2], y[2]),
              LAMBDA g : With(<< x[1] * (y[2] \div g) + y[1] * (x[2] \div g),
                                 (x[2] \div g) * y[2] >>,
                              LAMBDA f : Rat(f[1], f[2])))

MulValues(x, y) ==
    IF x[1] = 0 \/ y[1] = 0 THEN Zero
    ELSE IF x[2] = 1 /\ y[2] = 1 THEN << x[1] * y[1], 1 >>
    ELSE With(<< GCD(Abs(x[1]), y[2]), GCD(Abs(y[1]), x[2]) >>,
              LAMBDA g : << (x[1] \div g[1]) * (y[1] \div g[2]),
                            (x[2] \div g[2]) * (y[2] \div g[1]) >>)

RAdd(x, y) == CHOOSE r \in {AddValues(u, v) : u \in {x}, v \in {y}} : TRUE
RMul(x, y) == CHOOSE r \in {MulValues(u, v) : u \in {x}, v \in {y}} : TRUE

\* x / y, for y # 0
RDiv(x, y) ==
    With(y, LAMBDA v : RMul(x, IF v[1] < 0 THEN << -v[2], -v[1] >> ELSE << v[2], v[1] >>))

----------------------------------------------------------------------------
(* Arrays: a two-dimensional ndarray is a sequence of rows of rationals     *)

\* the sequence a function over 1..n is, with its entries evaluated
AsSeq(f) == f \o << >>

Rows(m) == Len(m)
Cols(m) == IF Len(m) = 0 THEN 0 ELSE Len(m[1])
Shape(m) == << Rows(m), Cols(m) >>

\* an array of integers, as written in the client's code
IntArray(rows) ==
    AsSeq([i \in 1..Len(rows) |-> AsSeq([j \in 1..Len(rows[i]) |-> Int2Rat(rows[i][j])])])

eye(n) == AsSeq([i \in 1..n |-> AsSeq([j \in 1..n |-> IF i = j THEN One ELSE Zero])])

Ok(v) == [err |-> "", val |-> v]
Raise(e) == [err |-> e, val |-> << >>]

\* x, or what F makes of x's value when x is no exception
Then(x, F(_)) == CHOOSE y \in {IF r.err # "" THEN r ELSE F(r.val) : r \in {x}} : TRUE

RECURSIVE DotSum(_, _, _, _, _)
DotSum(a, b, i, j, k) ==
    IF k = 0 THEN Zero
    ELSE RAdd(DotSum(a, b, i, j, k - 1), RMul(a[i][k], b[k][j]))

\* np.dot of two 2-D arrays given as values
DotValues(a, b) ==
    IF Cols(a) # Rows(b) THEN Raise("ValueError")
    ELSE Ok(AsSeq([i \in 1..Rows(a) |->
                AsSeq([j \in 1..Cols(b) |-> DotSum(a, b, i, j, Cols(a))])]))

\* np.dot: ValueError when the shapes are not aligned
dot(a, b) == CHOOSE r \in {DotValues(u, v) : u \in {a}, v \in {b}} : TRUE

Minor(m, i, j) ==
    AsSeq([r \in 1..(Rows(m) - 1) |->
        AsSeq([c \in 1..(Rows(m) - 1) |->
            m[IF r < i THEN r ELSE r + 1][IF c < j THEN c ELSE c + 1]])])

RECURSIVE Det(_)
RECURSIVE DetSum(_, _)
RECURSIVE Cofactor(_, _, _)
\* the cofactor expansion of the determinant of m along the first row,
\* columns 1..j
DetSum(m, j) ==
    IF j = 0 THEN Zero
    ELSE RAdd(DetSum(m, j - 1),
              IF m[1][j][1] = 0 THEN Zero ELSE RMul(m[1][j], Cofactor(m, 1, j)))
Det(m) == IF Rows(m) = 0 THEN One ELSE DetSum(m, Rows(m))
Cofactor(m, i, j) ==
    With(With(Minor(m, i, j), Det),
         LAMBDA c : IF (i + j) % 2 = 0 THEN c ELSE RNeg(c))

\* np.linalg.inv of an array given as a value
InvValue(m) ==
    IF Rows(m) # Cols(m) \/ Rows(m) = 0 THEN Raise("LinAlgError")
    ELSE With(Det(m), LAMBDA d :
             IF d[1] = 0 THEN Raise("LinAlgError")
             ELSE Ok(AsSeq([i \in 1..Rows(m) |-> AsSeq([j \in 1..Rows(m) |->
                        RDiv(Cofactor(m, j, i), d)])])))

\* np.linalg.inv: LinAlgError when the array is not square or is singular
inv(m) == With(m, InvValue)

----------------
(* Python values that the code compares across types: str and tuple        *)

Str(s) == [t |-> "str", v |-> s]
Tuple(items) == [t |-> "tuple", v |-> items]

\* x == y: values of different types are unequal
PyEq(x, y) == x.t = y.t /\ x.v = y.v

\* x in tup
PyIn(x, tup) == \E i \in 1..Len(tup.v) : PyEq(x, tup.v[i])

\* s.endswith(x), where s ends with the suffix suf and x is a str or a
\* tuple of str, each a dot followed by letters
EndsWith(suf, x) ==
    IF x.t = "str" THEN suf.v = x.v
    ELSE \E i \in 1..Len(x.v) : suf.v = x.v[i].v

----------------------------------------------------------------------------
(* io.py                                                                    *)

FLIPXY == IntArray(<< <<-1, 0, 0, 0>>, <<0, -1, 0, 0>>, <<0, 0, 1, 0>>, <<0, 0, 0, 1>> >>)
ITK_H5 == Str(".h5")
ITK_TFM == Str(".tfm")
ITK_EXT == Tuple(<< ITK_H5, ITK_TFM >>)
NIFTYREG_EXT == Str(".txt")

\* the number of decimals of fmt='%.8f'
Decimals == 8

RECURSIVE Pow10(_)
Pow10(k) == IF k = 0 THEN 1 ELSE 10 * Pow10(k - 1)

RECURSIVE FixedDigits(_, _, _, _)
\* long division: acc followed by the next k decimals of r/d (0 <= r < d),
\* and the remainder left after them
FixedDigits(acc, r, d, k) ==
    IF k = 0 THEN << acc, r >>
    ELSE FixedDigits(10 * acc + ((10 * r) \div d), (10 * r) % d, d, k - 1)

\* '%.8f' % x, as the integer number of units of 10^-8 printed: the value
\* nearest to x, a tie going to the even digit
Format(x) ==
    With(FixedDigits(Abs(x[1]) \div x[2], Abs(x[1]) % x[2], x[2], Decimals),
         LAMBDA q :
            With(IF 2 * q[2] > x[2] \/ (2 * q[2] = x[2] /\ q[1] % 2 = 1)
                 THEN q[1] + 1 ELSE q[1],
                 LAMBDA k : IF x[1] < 0 THEN -k ELSE k))

\* float(token) of a token printed by Format
Parse(k) == Rat(k, Pow10(Decimals))

\* the file np.savetxt(path, matrix, fmt='%.8f') leaves
savetxt(matrix) ==
    [kind |-> "text",
     rows |-> AsSeq([i \in 1..Rows(matrix) |->
                 AsSeq([j \in 1..Cols(matrix) |-> Format(matrix[i][j])])])]

\* np.loadtxt: ValueError on a file that is no table of numbers
loadtxt(file) ==
    IF file.kind # "text" THEN Raise("ValueError")
    ELSE Ok(AsSeq([i \in 1..Len(file.rows) |->
                AsSeq([j \in 1..Len(file.rows[i]) |-> Parse(file.rows[i][j])])]))

\* a reader that returns the stored matrix as it is
read_niftyreg_uninverted(file) == loadtxt(file)

read_niftyreg_matrix(file) == Then(loadtxt(file), inv)

\* the file written, or the exception raised before anything is written
write_niftyreg_matrix(matrix) == Then(inv(matrix), LAMBDA m : Ok(savetxt(m)))

\* a conversion that flips on one side only
to_itk_one_flip(matrix) == Then(dot(FLIPXY, matrix), inv)

to_itk_convention(matrix) ==
    Then(Then(dot(FLIPXY, matrix), LAMBDA m : dot(m, FLIPXY)), inv)

\* a conversion that flips and does not invert
from_itk_uninverted(matrix) ==
    Then(dot(matrix, FLIPXY), LAMBDA m : dot(FLIPXY, m))

from_itk_convention(matrix) ==
    Then(Then(dot(matrix, FLIPXY), LAMBDA m : dot(FLIPXY, m)), inv)

\* a transform whose translation is read from the fourth row
matrix_to_itk_transform_from_row(matrix) ==
    Then(to_itk_convention(matrix),
         LAMBDA m : Ok([kind |-> "itk",
                        params |-> AsSeq([k \in 1..12 |->
                            IF k <= 9 THEN m[((k - 1) \div 3) + 1][((k - 1) % 3) + 1]
                            ELSE m[4][k - 9]])]))

\* sitk.AffineTransform(rotation, translation), as its parameters: the 9
\* entries of matrix[:3, :3] row by row, then the 3 of matrix[:3, 3]
matrix_to_itk_transform(matrix) ==
    Then(to_itk_convention(matrix),
         LAMBDA m : Ok([kind |-> "itk",
                        params |-> AsSeq([k \in 1..12 |->
                            IF k <= 9 THEN m[((k - 1) \div 3) + 1][((k - 1) % 3) + 1]
                            ELSE m[k - 9][4]])]))

\* the file transform.WriteTransform leaves
write_itk_matrix(matrix) == matrix_to_itk_transform(matrix)

\* the 4x4 array rebuilt from 12 parameters: parameters[:9] as the 3x3
\* block row by row, parameters[9:] as the fourth column, then [0, 0, 0, 1]
homogeneous_matrix_lps(parameters) ==
    AsSeq([i \in 1..4 |-> AsSeq([j \in 1..4 |->
        IF i = 4 THEN (IF j = 4 THEN One ELSE Zero)
        ELSE IF j = 4 THEN parameters[9 + i]
        ELSE parameters[3 * (i - 1) + j]])])

\* sitk.ReadTransform raises RuntimeError on a file that is no transform
read_itk_matrix(file) ==
    IF file.kind # "itk" THEN Raise("RuntimeError")
    ELSE With(homogeneous_matrix_lps(file.params), from_itk_convention)

----------------------------------------------------------------------------
(* The state: the client's variables a and b, each unbound or bound to an  *)
(* AffineMatrix; the arrays the objects' matrix attributes refer to; the   *)
(* files; and a record of the last call                                    *)

VARIABLES objs, heap, fs, last, steps, cin, chain, cval, disk, dcall

vars == << objs, heap, fs, last, steps, cin, chain, cval, disk, dcall >>
affineVars == << objs, heap, fs, last, steps >>
convVars == << cin, chain, cval >>
dirVars == << disk, dcall >>

\* the number of calls a run makes
MaxSteps == 2

\* the number of conversions applied in a row to one array
MaxChain == 2

\* arithmetic is modelled on arrays whose entries have a numerator and a
\* denominator of at most MaxEntry
MaxEntry == 100

Slots == {"a", "b"}
Ids == 1..Cardinality(Slots)
Unbound == 0
Free == << >>

NoFile == [kind |-> "none"]
Garbage == [kind |-> "garbage"]

Path(stem, suffix) == [stem |-> stem, suffix |-> Str(suffix)]

\* client arrays
Translation == IntArray(<< <<1, 0, 0, 1>>, <<0, 1, 0, 2>>, <<0, 0, 1, 3>>, <<0, 0, 0, 1>> >>)
Scaling == IntArray(<< <<3, 0, 0, 0>>, <<0, 1, 0, 0>>, <<0, 0, 1, 0>>, <<0, 0, 0, 1>> >>)
Singular == IntArray(<< <<1, 0, 0, 0>>, <<0, 1, 0, 0>>, <<0, 0, 0, 0>>, <<0, 0, 0, 1>> >>)
Small == IntArray(<< <<2, 0, 1>>, <<0, 1, 0>>, <<0, 0, 1>> >>)

InitArrays == {Translation, Scaling}
\* the arrays the client constructs objects from, and those it multiplies by
Arrays == {Scaling, Singular, Small}
Operands == {Scaling}
\* the variables the client assigns new objects to
Targets == {"b"}

OutTxt == Path("out", ".txt")
SmallTxt == Path("small", ".txt")
BadTxt == Path("bad", ".txt")
InTfm == Path("in", ".tfm")
OutH5 == Path("out", ".h5")
InCsv == Path("in", ".csv")
OutCsv == Path("out", ".csv")
Paths == {OutTxt, SmallTxt, BadTxt, InTfm, OutH5, InCsv, OutCsv}
\* the paths the client writes to
WritePaths == {OutTxt, InTfm, OutH5, OutCsv}

\* the files present before the first call
InitFiles ==
    [p \in Paths |->
        CASE p = SmallTxt -> savetxt(Small)
          [] p = BadTxt -> Garbage
          [] p = InTfm -> matrix_to_itk_transform(Translation).val
          [] p = InCsv -> savetxt(Translation)
          [] OTHER -> NoFile]

InRange(m) ==
    \A i \in 1..Rows(m) : \A j \in 1..Cols(m) :
        Abs(m[i][j][1]) <= MaxEntry /\ m[i][j][2] <= MaxEntry

Bound(s) == objs[s] # Unbound
Value(s) == heap[objs[s]]

\* what a call may be given as its affine argument
NoneSrc == [kind |-> "none"]
ArraySrc(m) == [kind |-> "array", val |-> m]
PathSrc(p) == [kind |-> "path", path |-> p]
ObjSrc(s) == [kind |-> "obj", slot |-> s]

----------------------------------------------------------------------------
(* affine.py                                                                *)

VALID_TRSF_EXTENSIONS == Tuple(<< NIFTYREG_EXT, ITK_EXT >>)

is_file(path) == fs[path] # NoFile

\* a check that lets every extension through
parse_extension_lenient(path) == Ok(path)

parse_extension(path) ==
    IF ~PyIn(path.suffix, VALID_TRSF_EXTENSIONS) THEN Raise("IOError")
    ELSE Ok(path)

\* the two checks in the other order
parse_path_extension_first(path) ==
    Then(parse_extension(path),
         LAMBDA p : IF ~is_file(p) THEN Raise("FileNotFoundError") ELSE Ok(p))

parse_path(path) ==
    IF ~is_file(path) THEN Raise("FileNotFoundError")
    ELSE parse_extension(path)

read(path) ==
    Then(parse_path(path),
         LAMBDA p : IF PyEq(p.suffix, NIFTYREG_EXT) THEN read_niftyreg_matrix(fs[p])
                    ELSE IF PyEq(p.suffix, ITK_EXT) THEN read_itk_matrix(fs[p])
                    ELSE Raise("UnboundLocalError"))

\* AffineMatrix.write on an object whose matrix is `matrix`: the file
\* written (NoFile when the call returns having written nothing), or the
\* exception
write(matrix, path) ==
    Then(parse_extension(path),
         LAMBDA p : IF EndsWith(p.suffix, NIFTYREG_EXT) THEN write_niftyreg_matrix(matrix)
                    ELSE IF EndsWith(p.suffix, ITK_EXT) THEN write_itk_matrix(matrix)
                    ELSE Ok(NoFile))

invert(matrix) == inv(matrix)

\* AffineMatrix(affine, invert): the exception, or the new object's matrix
\* and, in alias, the variable whose object's array it is ("" when the
\* array is a new one)
AffineMatrix(affine, inverted) ==
    With(CASE affine.kind = "none" -> [err |-> "", val |-> eye(4), alias |-> ""]
           [] affine.kind = "path" ->
                With(read(affine.path),
                     LAMBDA r : [err |-> r.err, val |-> r.val, alias |-> ""])
           [] affine.kind = "array" ->
                IF Shape(affine.val) # << 4, 4 >>
                THEN [err |-> "ValueError", val |-> << >>, alias |-> ""]
                ELSE [err |-> "", val |-> affine.val, alias |-> ""]
           [] affine.kind = "obj" ->
                [err |-> "", val |-> Value(affine.slot), alias |-> affine.slot],
         LAMBDA made :
            IF made.err # "" \/ affine.kind = "none" \/ ~inverted THEN made
            ELSE With(invert(made.val),
                      LAMBDA r : [err |-> r.err, val |-> r.val, alias |-> ""]))

inverse(matrix) ==
    Then(inv(matrix), LAMBDA m : AffineMatrix(ArraySrc(m), FALSE))

\* a left_multiply that multiplies on the right
left_multiply_swapped(matrix, affine) ==
    Then(AffineMatrix(affine, FALSE), LAMBDA m : dot(matrix, m))

left_multiply(matrix, affine) ==
    Then(AffineMatrix(affine, FALSE), LAMBDA m : dot(m, matrix))

right_multiply(matrix, affine) ==
    Then(AffineMatrix(affine, FALSE), LAMBDA m : dot(matrix, m))

\* self * other, where self is the object of variable s
mul(s, other) ==
    With(AffineMatrix(ObjSrc(s), FALSE),
         LAMBDA result : right_multiply(result.val, other))

----------------------------------------------------------------------------
(* Binding and assignment                                                   *)

Snapshot == [objs |-> objs, heap |-> heap, fs |-> fs]

\* the arrays still referred to once variable t is rebound
KeptBut(t) == {objs[s] : s \in Slots \ {t}} \ {Unbound}

\* t = <a new object whose matrix is a new array holding m>
New(t, m) ==
    LET kept == KeptBut(t)
        id == CHOOSE i \in Ids \ kept : \A j \in Ids \ kept : i <= j
    IN  /\ objs' = [objs EXCEPT ![t] = id]
        /\ heap' = [i \in Ids |-> IF i = id THEN m
                                  ELSE IF i \in kept THEN heap[i] ELSE Free]

\* t = <a new object whose matrix is the array of s's object>
Share(t, s) ==
    LET id == objs[s]
    IN  /\ objs' = [objs EXCEPT ![t] = id]
        /\ heap' = [i \in Ids |-> IF i = id \/ i \in KeptBut(t) THEN heap[i] ELSE Free]

\* an assignment that writes m into the array self.matrix refers to
SetMatrixInPlace(o, m) ==
    /\ objs' = objs
    /\ heap' = [heap EXCEPT ![objs[o]] = m]

\* self.matrix = <a new array holding m>, self the object of variable o:
\* the array self.matrix referred to before is left as it is
SetMatrix(o, m) ==
    LET kept == KeptBut(o)
        id == CHOOSE i \in Ids \ kept : \A j \in Ids \ kept : i <= j
    IN  /\ objs' = [objs EXCEPT ![o] = id]
        /\ heap' = [i \in Ids |-> IF i = id THEN m
                                  ELSE IF i \in kept THEN heap[i] ELSE Free]

Failed == UNCHANGED << objs, heap, fs >>

Called(op, recv, affine, inverted, err) ==
    /\ steps' = steps + 1
    /\ last' = [op |-> op, recv |-> recv, arg |-> affine, inverted |-> inverted,
                err |-> err, pre |-> Snapshot]
    /\ UNCHANGED << convVars, dirVars >>

----------------------------------------------------------------------------
(* The client's calls                                                       *)

\* t = AffineMatrix(affine, invert=inverted)
Construct(t, affine, inverted) ==
    /\ steps < MaxSteps
    /\ affine.kind = "obj" => Bound(affine.slot) /\ (inverted => InRange(Value(affine.slot)))
    /\ \E r \in {AffineMatrix(affine, inverted)} :
           /\ Called("AffineMatrix", t, affine, inverted, r.err)
           /\ IF r.err # "" THEN Failed
              ELSE /\ IF r.alias # "" THEN Share(t, r.alias) ELSE New(t, r.val)
                   /\ UNCHANGED fs

\* o.invert()
Invert(o) ==
    /\ steps < MaxSteps
    /\ Bound(o) /\ InRange(Value(o))
    /\ \E r \in {invert(Value(o))} :
           /\ Called("invert", o, NoneSrc, FALSE, r.err)
           /\ IF r.err # "" THEN Failed
              ELSE SetMatrix(o, r.val) /\ UNCHANGED fs

\* t = o.inverse
Inverse(t, o) ==
    /\ steps < MaxSteps
    /\ Bound(o) /\ InRange(Value(o))
    /\ \E r \in {inverse(Value(o))} :
           /\ Called("inverse", t, ObjSrc(o), FALSE, r.err)
           /\ IF r.err # "" THEN Failed
              ELSE New(t, r.val) /\ UNCHANGED fs

\* t = x * y
Mul(t, x, y) ==
    /\ steps < MaxSteps
    /\ Bound(x) /\ InRange(Value(x))
    /\ Bound(y) /\ InRange(Value(y))
    /\ \E r \in {mul(x, ObjSrc(y))} :
           /\ Called("mul", t, [kind |-> "objs", left |-> x, right |-> y], FALSE, r.err)
           /\ IF r.err # "" THEN Failed
              ELSE New(t, r.val) /\ UNCHANGED fs

\* o.left_multiply(affine)
LeftMultiply(o, affine) ==
    /\ steps < MaxSteps
    /\ Bound(o) /\ InRange(Value(o))
    /\ affine.kind = "obj" => Bound(affine.slot) /\ InRange(Value(affine.slot))
    /\ \E r \in {left_multiply(Value(o), affine)} :
           /\ Called("left_multiply", o, affine, FALSE, r.err)
           /\ IF r.err # "" THEN Failed
              ELSE SetMatrix(o, r.val) /\ UNCHANGED fs

\* o.right_multiply(affine)
RightMultiply(o, affine) ==
    /\ steps < MaxSteps
    /\ Bound(o) /\ InRange(Value(o))
    /\ affine.kind = "obj" => Bound(affine.slot) /\ InRange(Value(affine.slot))
    /\ \E r \in {right_multiply(Value(o), affine)} :
           /\ Called("right_multiply", o, affine, FALSE, r.err)
           /\ IF r.err # "" THEN Failed
              ELSE SetMatrix(o, r.val) /\ UNCHANGED fs

\* o.write(path)
Write(o, path) ==
    /\ steps < MaxSteps
    /\ Bound(o) /\ InRange(Value(o))
    /\ \E r \in {write(Value(o), path)} :
           /\ Called("write", o, PathSrc(path), FALSE, r.err)
           /\ UNCHANGED << objs, heap >>
           /\ IF r.err # "" \/ r.val = NoFile THEN UNCHANGED fs
              ELSE fs' = [fs EXCEPT ![path] = r.val]

Init ==
    /\ \E m \in InitArrays :
          /\ objs = [s \in Slots |-> IF s = "a" THEN 1 ELSE Unbound]
          /\ heap = [i \in Ids |-> IF i = 1 THEN m ELSE Free]
    /\ fs = InitFiles
    /\ steps = 0
    /\ last = [op |-> "start", recv |-> "a", arg |-> NoneSrc, inverted |-> FALSE,
               err |-> "", pre |-> [objs |-> objs, heap |-> heap, fs |-> fs]]
    /\ cin = << >> /\ chain = << >> /\ cval = Ok(<< >>)
    /\ disk = << >> /\ dcall = [op |-> "start"]

Next ==
    \/ \E t \in Targets : Construct(t, NoneSrc, FALSE)
    \/ \E t \in Targets, m \in Arrays, inverted \in BOOLEAN : Construct(t, ArraySrc(m), inverted)
    \/ \E t \in Targets, p \in Paths : Construct(t, PathSrc(p), FALSE)
    \/ \E t \in Targets, s \in Slots, inverted \in BOOLEAN : Construct(t, ObjSrc(s), inverted)
    \/ \E o \in Slots : Invert(o)
    \/ \E t \in Targets, o \in Slots : Inverse(t, o)
    \/ \E t \in Targets, x \in Slots, y \in Slots : Mul(t, x, y)
    \/ \E o \in Slots, m \in Operands : LeftMultiply(o, ArraySrc(m))
    \/ \E o \in Slots, s \in Slots : LeftMultiply(o, ObjSrc(s))
    \/ \E o \in Slots, m \in Operands : RightMultiply(o, ArraySrc(m))
    \/ \E o \in Slots, s \in Slots : RightMultiply(o, ObjSrc(s))
    \/ \E o \in Slots, p \in WritePaths : Write(o, p)

Spec == Init /\ [][Next]_vars

----------------------------------------------------------------------------
(* The convention conversions of io.py as functions of an array: a client  *)
(* array cin, the conversions applied to it so far, and what the last one  *)
(* returned or raised                                                       *)

\* the 4x4 array with rows r1, r2, r3 and bottom row bottom
Array4(r1, r2, r3, bottom) == IntArray(<< r1, r2, r3, bottom >>)

\* the affine array of the 3x3 block l and the translation t
Affine(l, t) ==
    Array4(l[1] \o << t[1] >>, l[2] \o << t[2] >>, l[3] \o << t[3] >>, << 0, 0, 0, 1 >>)

Linear ==
    { << << 1, 0, 0 >>, << 0, 1, 0 >>, << 0, 0, 1 >> >>,       \* identity
      << << 0, -1, 0 >>, << 1, 0, 0 >>, << 0, 0, 1 >> >>,      \* quarter turn about z
      << << 3, 0, 0 >>, << 0, 1, 0 >>, << 0, 0, 2 >> >>,       \* anisotropic scaling
      << << 1, 2, 0 >>, << 0, 1, 0 >>, << 1, 0, 1 >> >>,       \* shear
      << << 2, 1, 0 >>, << 1, 1, 1 >>, << 0, 3, 1 >> >>,       \* general, determinant -5
      << << 1, 2, 3 >>, << 2, 4, 6 >>, << 0, 0, 1 >> >> }      \* rank 2

Shifts == { << 0, 0, 0 >>, << 1, 2, 3 >>, << -2, 0, 5 >> }

ConvInputs ==
    {Affine(l, t) : l \in Linear, t \in Shifts}
        \cup {Array4(<< 1, 0, 2, 0 >>, << 0, 1, 0, 0 >>, << 0, 0, 1, 1 >>, << 1, 0, 0, 2 >>)}

Converted(name, r) ==
    /\ Len(chain) < MaxChain
    /\ cval.err = ""
    /\ chain' = Append(chain, name)
    /\ cval' = r
    /\ UNCHANGED << cin, affineVars, dirVars >>

\* cval = io.to_itk_convention(cval)
ToItk == Converted("to_itk_convention", to_itk_convention(cval.val))

\* cval = io.from_itk_convention(cval)
FromItk == Converted("from_itk_convention", from_itk_convention(cval.val))

InitConv ==
    /\ cin \in ConvInputs
    /\ chain = << >>
    /\ cval = Ok(cin)
    /\ objs = [s \in Slots |-> Unbound]
    /\ heap = [i \in Ids |-> Free]
    /\ fs = InitFiles
    /\ steps = 0
    /\ last = [op |-> "start", recv |-> "a", arg |-> NoneSrc, inverted |-> FALSE,
               err |-> "", pre |-> [objs |-> objs, heap |-> heap, fs |-> fs]]
    /\ disk = << >> /\ dcall = [op |-> "start"]

NextConv == ToItk \/ FromItk

SpecConv == InitConv /\ [][NextConv]_vars

----------------------------------------------------------------------------
(* path.py: paths as sequences of names below the working directory, the   *)
(* directory tree, and ensure_dir                                          *)

\* the number of paths in a list given to ensure_dir
MaxPaths == 2

\* a name and the suffixes pathlib finds in it: img.nii.gz is
\* Name("img", << ".nii", ".gz" >>)
Name(stem, suffixes) == [stem |-> stem, suffixes |-> suffixes]

\* Path(...) of the names parts, and the list and tuple arguments
PurePath(parts) == [t |-> "Path", v |-> parts]
List(items) == [t |-> "list", v |-> items]

\* path.parent, path.suffixes
parent(parts) == IF parts = << >> THEN << >> ELSE SubSeq(parts, 1, Len(parts) - 1)
suffixes(parts) == IF parts = << >> THEN << >> ELSE parts[Len(parts)].suffixes

Seg == PurePath(<< Name("out", << >>), Name("seg", << >>) >>)
Img == PurePath(Seg.v \o << Name("img", << ".nii", ".gz" >>) >>)
Masks == PurePath(Img.v \o << Name("masks", << >>) >>)
T1 == PurePath(<< Name("res", << >>), Name("t1", << ".txt" >>) >>)

\* the paths the client passes to ensure_dir, and every path above them
PathArgs == {Seg, Img, Masks, T1}
Nodes == UNION {{SubSeq(p.v, 1, k) : k \in 0..Len(p.v)} : p \in PathArgs}
PathLists == UNION {[1..k -> PathArgs] : k \in 0..MaxPaths}

\* the trees the client starts from: what exists lies in a directory, and
\* the files are the names with a suffix
Kinds == {"absent", "dir", "file"}
InitDisks ==
    {d \in [Nodes -> Kinds] :
        /\ d[<< >>] = "dir"
        /\ \A n \in Nodes \ {<< >>} :
              /\ d[n] # "absent" => d[parent(n)] = "dir"
              /\ d[n] = "dir" => suffixes(n) = << >>
              /\ d[n] = "file" => suffixes(n) # << >>}

\* path.exists()
exists(d, parts) == d[parts] # "absent"

\* path.mkdir(parents=True, exist_ok=True): the tree it leaves, or the
\* exception it raises, having made nothing
RECURSIVE mkdir(_, _)
mkdir(d, parts) ==
    IF d[parts] = "dir" THEN Ok(d)
    ELSE IF d[parts] = "file" THEN Raise("FileExistsError")
    ELSE IF d[parent(parts)] = "dir" THEN Ok([d EXCEPT ![parts] = "dir"])
    ELSE IF d[parent(parts)] = "file" THEN Raise("NotADirectoryError")
    ELSE Then(mkdir(d, parent(parts)), LAMBDA made : Ok([made EXCEPT ![parts] = "dir"]))

\* the loop of ensure_dir from its i-th path on: the first path that
\* exists ends the call
RECURSIVE ensure_each(_, _, _)
ensure_each(items, i, d) ==
    IF i > Len(items) THEN Ok(d)
    ELSE IF exists(d, items[i].v) THEN Ok(d)
    ELSE With(IF suffixes(items[i].v) = << >> THEN mkdir(d, items[i].v)
              ELSE mkdir(d, parent(items[i].v)),
              LAMBDA r : IF r.err # "" THEN [err |-> r.err, val |-> d]
                         ELSE ensure_each(items, i + 1, r.val))

\* the tree ensure_dir(paths) leaves, and the exception it raises if any
ensure_dir(paths, d) ==
    ensure_each(IF paths.t \in {"list", "tuple"} THEN paths.v ELSE << paths >>, 1, d)

\* ensure_dir(paths)
EnsureDir(paths) ==
    /\ \E r \in {ensure_dir(paths, disk)} :
          /\ disk' = r.val
          /\ dcall' = [op |-> "ensure_dir", paths |-> paths, err |-> r.err, pre |-> disk]
    /\ UNCHANGED << affineVars, convVars >>

InitDir ==
    /\ disk \in InitDisks
    /\ dcall = [op |-> "start", paths |-> List(<< >>), err |-> "", pre |-> disk]
    /\ objs = [s \in Slots |-> Unbound]
    /\ heap = [i \in Ids |-> Free]
    /\ fs = InitFiles
    /\ steps = 0
    /\ last = [op |-> "start", recv |-> "a", arg |-> NoneSrc, inverted |-> FALSE,
               err |-> "", pre |-> [objs |-> objs, heap |-> heap, fs |-> fs]]
    /\ cin = << >> /\ chain = << >> /\ cval = Ok(<< >>)

NextDir ==
    \/ \E items \in PathLists : EnsureDir(List(items))
    \/ \E items \in PathLists : EnsureDir(Tuple(items))
    \/ \E p \in PathArgs : EnsureDir(p)

SpecDir == InitDir /\ [][NextDir]_vars

----------------------------------------------------------------------------
(* Properties.  Each is stated on the record of the last call: what was    *)
(* called on what, what it raised, and the state it was called in.         *)

IsWrite == last.op = "write"
IsRead == last.op = "AffineMatrix" /\ last.arg.kind = "path"
PreBound(s) == last.pre.objs[s] # Unbound
PreValue(s) == last.pre.heap[last.pre.objs[s]]
NothingChanged == objs = last.pre.objs /\ heap = last.pre.heap /\ fs = last.pre.fs

FourByFour(m) == Shape(m) = << 4, 4 >>
Invertible(m) == FourByFour(m) /\ inv(m).err = ""
SingularMatrix(m) == FourByFour(m) /\ inv(m).err # ""
Homogeneous(m) == FourByFour(m) /\ m[4] = << Zero, Zero, Zero, One >>
Unrecognized(path) == path.suffix.v \notin {".txt", ".tfm", ".h5"}

\* C1: an invertible homogeneous matrix written to a .tfm or .h5 path is
\* written without error and read back as the same matrix
C1_BinaryRoundTrip ==
    (/\ IsWrite
     /\ last.arg.path.suffix.v \in {".tfm", ".h5"}
     /\ Invertible(PreValue(last.recv))
     /\ Homogeneous(PreValue(last.recv)))
        => /\ last.err = ""
           /\ read(last.arg.path) = Ok(PreValue(last.recv))

\* C2: from_itk_convention(to_itk_convention(M)) = M for every invertible
\* 4x4 array M, and neither conversion raises on the way
C2_ConventionRoundTrip ==
    Invertible(cin) =>
        /\ (chain = << "to_itk_convention" >> => cval.err = "")
        /\ (chain = << "to_itk_convention", "from_itk_convention" >> => cval = Ok(cin))

C2_Witness ==
    /\ chain = << "to_itk_convention", "from_itk_convention" >>
    /\ Invertible(cin)
    /\ ~Homogeneous(cin)
    /\ cval = Ok(cin)

C4_UnsupportedExtension ==
    ((IsRead \/ IsWrite) /\ Unrecognized(last.arg.path))
        => last.err = "IOError" /\ NothingChanged

\* C4 as amended: write raises the unsupported-format error and changes
\* nothing; read raises it when the path is a file, and the not-found error
\* when it is not
C4_UnsupportedExtensionOfFile ==
    /\ (IsWrite /\ Unrecognized(last.arg.path))
          => last.err = "IOError" /\ NothingChanged
    /\ (IsRead /\ Unrecognized(last.arg.path))
          => /\ last.err = IF last.pre.fs[last.arg.path] # NoFile
                           THEN "IOError" ELSE "FileNotFoundError"
             /\ NothingChanged

C4_Witness ==
    /\ IsWrite
    /\ last.arg.path = OutCsv
    /\ last.err = "IOError"
    /\ fs[OutCsv] = NoFile

\* C5: a read raises the not-found error exactly when the path is no file,
\* whatever its extension; a file with an unrecognized extension and a .txt
\* file that is no table of numbers raise other errors
C5_NotFoundFirst ==
    IsRead =>
        /\ last.err = "FileNotFoundError" <=> last.pre.fs[last.arg.path] = NoFile
        /\ (last.pre.fs[last.arg.path] # NoFile /\ Unrecognized(last.arg.path))
              => last.err = "IOError"
        /\ (last.pre.fs[last.arg.path] = Garbage /\ last.arg.path.suffix.v = ".txt")
              => last.err = "ValueError"

C5_Witness ==
    /\ IsRead
    /\ last.arg.path = OutCsv
    /\ last.pre.fs[OutCsv] = NoFile
    /\ last.err = "FileNotFoundError"

\* C6: every AffineMatrix holds a 4x4 matrix; constructing one from an
\* array or from a text file of another shape raises
C6_AlwaysFourByFour ==
    /\ \A s \in Slots : Bound(s) => FourByFour(Value(s))
    /\ (last.op = "AffineMatrix" /\ last.arg.kind = "array" /\ ~FourByFour(last.arg.val))
          => last.err # ""
    /\ (/\ IsRead
        /\ last.pre.fs[last.arg.path].kind = "text"
        /\ Shape(last.pre.fs[last.arg.path].rows) # << 4, 4 >>)
          => last.err # ""

\* C7: a call changes the matrix of no object but the receiver of invert,
\* left_multiply or right_multiply: every other variable's object, arrays
\* shared by copy-construction included, keeps its matrix
Mutated(s) ==
    last.err = "" /\ last.recv = s
        /\ last.op \in {"invert", "left_multiply", "right_multiply"}
Assigned(s) ==
    last.err = "" /\ last.recv = s
        /\ last.op \in {"AffineMatrix", "inverse", "mul"}

C7_OthersKeepTheirMatrix ==
    \A s \in Slots :
        (PreBound(s) /\ ~Mutated(s) /\ ~Assigned(s))
            => Bound(s) /\ Value(s) = PreValue(s)

C7_Witness ==
    /\ last.op = "invert"
    /\ last.err = ""
    /\ last.recv = "b"
    /\ last.pre.objs["a"] = last.pre.objs["b"]
    /\ Value("a") = PreValue("a")
    /\ Value("b") # Value("a")

\* C8: right_multiply sets the receiver's matrix to self . other,
\* left_multiply to other . self, a * b makes a . b; so left-multiplying A
\* by B gives what right-multiplying B by A gives
Operand ==
    IF last.arg.kind = "obj" THEN PreValue(last.arg.slot) ELSE last.arg.val

C8_CompositionOrder ==
    /\ (last.op = "right_multiply" /\ last.err = "")
          => Ok(Value(last.recv)) = dot(PreValue(last.recv), Operand)
    /\ (last.op = "left_multiply" /\ last.err = "")
          => /\ Ok(Value(last.recv)) = dot(Operand, PreValue(last.recv))
             /\ FourByFour(PreValue(last.recv)) =>
                    Ok(Value(last.recv)) =
                        right_multiply(Operand, ArraySrc(PreValue(last.recv)))
    /\ (last.op = "mul" /\ last.err = "")
          => Ok(Value(last.recv)) = dot(PreValue(last.arg.left), PreValue(last.arg.right))

C8_Witness ==
    /\ last.op = "left_multiply"
    /\ last.err = ""
    /\ Ok(Value(last.recv)) = dot(Operand, PreValue(last.recv))
    /\ Ok(Value(last.recv)) # dot(PreValue(last.recv), Operand)

\* C9: inverting a singular matrix raises the numeric error and changes
\* nothing, be it in invert(), AffineMatrix(array, invert=True), the
\* inverse property, or a write to a text or a binary path
C9_SingularRaises ==
    /\ (last.op = "invert" /\ SingularMatrix(PreValue(last.recv)))
          => last.err = "LinAlgError" /\ NothingChanged
    /\ (/\ last.op = "AffineMatrix"
        /\ last.arg.kind = "array"
        /\ last.inverted
        /\ SingularMatrix(last.arg.val))
          => last.err = "LinAlgError" /\ NothingChanged
    /\ (last.op = "inverse" /\ SingularMatrix(PreValue(last.arg.slot)))
          => last.err = "LinAlgError" /\ NothingChanged
    /\ (/\ IsWrite
        /\ last.arg.path.suffix.v \in {".txt", ".tfm", ".h5"}
        /\ SingularMatrix(PreValue(last.recv)))
          => last.err = "LinAlgError" /\ NothingChanged

\* C10: both conversions map the 4x4 identity to the 4x4 identity
C10_IdentityIsFixed ==
    (cin = eye(4) /\ Len(chain) = 1) => cval = Ok(eye(4))

C10_Witness ==
    /\ cin = eye(4)
    /\ chain = << "from_itk_convention" >>
    /\ cval = Ok(eye(4))

\* the directory a path designates: the path when it has no suffix, its
\* parent when it has one
Designated(parts) == IF suffixes(parts) = << >> THEN parts ELSE parent(parts)

ReturnedFromList ==
    /\ dcall.op = "ensure_dir"
    /\ dcall.err = ""
    /\ dcall.paths.t \in {"list", "tuple"}

\* C11: after ensure_dir(paths) returns for a list or tuple of paths, the
\* directory designated by every path of the list exists, whichever of the
\* earlier paths existed before the call
C11_EveryDirectoryExists ==
    ReturnedFromList =>
        \A i \in 1..Len(dcall.paths.v) :
            disk[Designated(dcall.paths.v[i].v)] = "dir"


\* to_itk_convention was applied to an invertible array with bottom row
\* [0, 0, 0, 1]
ToItkOfHomogeneous ==
    /\ chain = << "to_itk_convention" >>
    /\ Homogeneous(cin)
    /\ Invertible(cin)

\* C12: for every invertible 4x4 matrix M with bottom row [0,0,0,1],
\* to_itk_convention(M) has bottom row [0,0,0,1], and the matrix rebuilt,
\* as read_itk_matrix does, from the 12 parameters matrix_to_itk_transform
\* stores (the 3x3 block row by row, then the first three entries of the
\* fourth column) with the row [0,0,0,1] is to_itk_convention(M) exactly
C12_TwelveParametersSuffice ==
    ToItkOfHomogeneous =>
        /\ cval.err = ""
        /\ cval.val[4] = << Zero, Zero, Zero, One >>
        /\ matrix_to_itk_transform(cin).err = ""
        /\ homogeneous_matrix_lps(matrix_to_itk_transform(cin).val.params) = cval.val

\* the case of a matrix with a translation and a block that is no diagonal
C12_Witness ==
    /\ ToItkOfHomogeneous
    /\ cin = Affine(<< << 2, 1, 0 >>, << 1, 1, 1 >>, << 0, 3, 1 >> >>, << 1, 2, 3 >>)
    /\ homogeneous_matrix_lps(matrix_to_itk_transform(cin).val.params) = cval.val
    /\ cval.val # cin

====
